---- MODULE Spec2Model ----
(***************************************************************************)
(* vector reallocation: member copy (vector<WidgetImpl>) versus Pimpl move *)
(* (vector<Widget>).  The model follows main() statement by statement and  *)
(* each push_back through its steps: the temporary is constructed, the     *)
(* backing storage grows when size = capacity (every existing element is   *)
(* relocated into the new storage, the old storage is destroyed), the new  *)
(* element is move-constructed from the temporary, the temporary is        *)
(* destroyed.                                                              *)
(***************************************************************************)
EXTENDS Integers, Sequences, FiniteSets, TLC

\* ------------------------------------------------------------------ bounds
\* The loop count of the two timed loops (3000000 in main) is scaled down to
\* any value of 0..MaxN.
MaxN == 5

\* Number of payload addresses the free store can hand out.
MaxAddr == MaxN + 1

\* ------------------------------------------------------- program constants
\* double arr[10]
ArrLen == 10

\* the three push_back calls before the timed loops push 1, 2, 3
PrePushes == 3

DefaultName == "AAAAAAAAAAAAAABBBBBBBBBBB"

\* unique_ptr's null
NULL == 0

Addrs == 1..MaxAddr

\* arr is never initialised by any constructor and never assigned: its
\* content is indeterminate.  An indeterminate array is one of these fills.
Indeterminate == {0, 1}

ArrOf(g) == [k \in 1..ArrLen |-> g]

\* How the library computes the new capacity is the implementation's choice:
\* doubling (libstdc++) or growth by half (MSVC).
GrowthPolicies == {"double", "half"}

VARIABLES
    pc,            \* statement of main being executed
    st,            \* step inside the statement: "stmt", "tmp", "grow", "fin"
    i,             \* the value pushed (before the loops) or the loop's int i
    N,             \* the loop count
    growth,        \* the library's growth policy
    vw,            \* vector<WidgetImpl>: the elements of the current storage
    vwCap,         \* vw.capacity()
    vwOld,         \* the storage being left during a reallocation of vw
    tmpW,          \* the temporary WidgetImpl(i): <<>> or <<record>>
    vpimpl,        \* vector<Widget>: the pimpl of each element
    vpCap,         \* vpimpl.capacity()
    vpOld,         \* the storage being left during a reallocation of vpimpl
    tmpP,          \* the temporary Widget(i): <<>> or <<pimpl>>
    heap,          \* the WidgetImpl objects made by make_unique, by address
    payloadAllocs, \* number of make_unique<WidgetImpl> calls so far
    lastCtor       \* the special member function that ran last (the
                   \* commented-out cout trace lines of the classes)

vars == <<pc, st, i, N, growth, vw, vwCap, vwOld, tmpW, vpimpl, vpCap, vpOld,
          tmpP, heap, payloadAllocs, lastCtor>>

vwVars == <<vw, vwCap, vwOld, tmpW>>
vpVars == <<vpimpl, vpCap, vpOld, tmpP, heap, payloadAllocs>>

\* ------------------------------------------------------------- WidgetImpl
\* WidgetImpl(int i = 0, double b = 0.0, double c = 0.0, double d = 0.0,
\*            string name = "AAAAAAAAAAAAAABBBBBBBBBBB"); arr is left out of
\* the initialiser list, g is its indeterminate content.
WidgetImplCtor(ci, cb, cc, cd, cname, g) ==
    [i |-> ci, b |-> cb, c |-> cc, d |-> cd, name |-> cname, arr |-> ArrOf(g)]

\* A copy constructor whose initialiser list was forgotten: the members are
\* default-initialised instead of copied.
WidgetImplCopyCtorDefaulted(rhs, g) == WidgetImplCtor(0, 0, 0, 0, DefaultName, g)

\* WidgetImpl(const WidgetImpl& rhs): copies i, b, c, d, name; arr is not in
\* the initialiser list.
WidgetImplCopyCtor(rhs, g) ==
    [i |-> rhs.i, b |-> rhs.b, c |-> rhs.c, d |-> rhs.d, name |-> rhs.name,
     arr |-> ArrOf(g)]

\* WidgetImpl(WidgetImpl&& rhs): i, b, c, d, name are moved; arr is not in
\* the initialiser list.
WidgetImplMoveCtor(rhs, g) ==
    [i |-> rhs.i, b |-> rhs.b, c |-> rhs.c, d |-> rhs.d, name |-> rhs.name,
     arr |-> ArrOf(g)]

\* What the move constructor leaves in rhs: the scalars are unchanged, the
\* moved-from string is valid but unspecified (empty, or left as it was).
MovedFromNames(rhs) == {"", rhs.name}

WidgetImplMovedFrom(rhs, nm) == [rhs EXCEPT !.name = nm]

\* WidgetImpl& operator= (const WidgetImpl& rhs): assigns i, b, c, d, name;
\* arr of *this is left as it is.
WidgetImplCopyAssign(this, rhs) ==
    [this EXCEPT !.i = rhs.i, !.b = rhs.b, !.c = rhs.c, !.d = rhs.d,
                 !.name = rhs.name]

\* ------------------------------------------------- what vector knows of T
\* WidgetImpl: user-declared copy constructor; move constructor without
\* noexcept.
WidgetImplTraits == [copyConstructible |-> TRUE, nothrowMove |-> FALSE]

\* Widget: the user-declared move constructor (without noexcept) deletes
\* the implicit copy constructor.
WidgetTraits == [copyConstructible |-> FALSE, nothrowMove |-> FALSE]

\* A vector that relocates by move whatever the element type declares.
UseMoveAlways(T) == TRUE

\* std::move_if_noexcept, which vector uses to relocate the existing
\* elements: move when the move constructor cannot throw or when there is no
\* copy constructor to fall back to, copy otherwise.
UseMove(T) == T.nothrowMove \/ ~T.copyConstructible

\* The capacity of the new storage when size = capacity = cap.
NewCap(policy, cap) ==
    IF policy = "double"
    THEN (IF cap = 0 THEN 1 ELSE 2 * cap)
    ELSE (IF cap + (cap \div 2) < cap + 1 THEN cap + 1 ELSE cap + (cap \div 2))

\* ----------------------------------------------------------------- heap
FreeAddrs == Addrs \ DOMAIN heap

\* operator new (inside make_unique): the address of the new object is one no
\* live object occupies; the free store is first-fit, so the address of a
\* deleted object is handed out again.
NewAddrs == {a \in FreeAddrs : \A b \in FreeAddrs : a <= b}

\* new WidgetImpl(...) at address a
HeapNew(h, a, rec) == [x \in (DOMAIN h) \cup {a} |-> IF x = a THEN rec ELSE h[x]]

\* delete p (delete of a null pointer does nothing)
HeapDelete(h, p) == [x \in (DOMAIN h) \ {p} |-> h[x]]

\* ~unique_ptr of every handle of a sequence of handles
HeapDeleteAll(h, ps) ==
    [x \in (DOMAIN h) \ {ps[k] : k \in 1..Len(ps)} |-> h[x]]

\* ---------------------------------------------------------------- main
Init ==
    /\ pc = "push_vw"
    /\ st = "stmt"
    /\ i = 1
    /\ N \in 0..MaxN
    /\ growth \in GrowthPolicies
    /\ vw = <<>> /\ vwCap = 0 /\ vwOld = <<>> /\ tmpW = <<>>
    /\ vpimpl = <<>> /\ vpCap = 0 /\ vpOld = <<>> /\ tmpP = <<>>
    /\ heap = <<>>
    /\ payloadAllocs = 0
    /\ lastCtor = "none"

\* The statement after the push_back that just finished.
AfterPush ==
    IF pc \in {"loop_vw", "loop_vp"}
    THEN /\ i' = i + 1
         /\ pc' = pc
    ELSE IF i < PrePushes
         THEN /\ i' = i + 1
              /\ pc' = pc
         ELSE /\ i' = i
              /\ pc' = IF pc = "push_vw" THEN "assign_vw" ELSE "assign_vp"

\* ---- vw.push_back(WidgetImpl(i))
\* the argument: the temporary WidgetImpl(i)
ConstructWidgetImpl ==
    /\ pc \in {"push_vw", "loop_vw"}
    /\ st = "stmt"
    /\ pc = "loop_vw" => i < N
    /\ \E g \in Indeterminate :
          tmpW' = <<WidgetImplCtor(i, 0, 0, 0, DefaultName, g)>>
    /\ st' = "tmp"
    /\ UNCHANGED <<pc, i, N, growth, vw, vwCap, vwOld, lastCtor>>
    /\ UNCHANGED vpVars

\* size = capacity: new storage is allocated
VwGrowBegin ==
    /\ pc \in {"push_vw", "loop_vw"}
    /\ st = "tmp"
    /\ Len(vw) = vwCap
    /\ vwOld' = vw
    /\ vw' = <<>>
    /\ vwCap' = NewCap(growth, vwCap)
    /\ st' = "grow"
    /\ UNCHANGED <<pc, i, N, growth, tmpW, lastCtor>>
    /\ UNCHANGED vpVars

\* the next existing element is constructed in the new storage
VwRelocate ==
    /\ pc \in {"push_vw", "loop_vw"}
    /\ st = "grow"
    /\ Len(vw) < Len(vwOld)
    /\ LET k == Len(vw) + 1 IN
       \E g \in Indeterminate :
          IF UseMove(WidgetImplTraits)
          THEN /\ vw' = Append(vw, WidgetImplMoveCtor(vwOld[k], g))
               /\ \E nm \in MovedFromNames(vwOld[k]) :
                     vwOld' = [vwOld EXCEPT ![k] = WidgetImplMovedFrom(vwOld[k], nm)]
               /\ lastCtor' = "WidgetImpl::move"
          ELSE /\ vw' = Append(vw, WidgetImplCopyCtor(vwOld[k], g))
               /\ vwOld' = vwOld
               /\ lastCtor' = "WidgetImpl::copy"
    /\ UNCHANGED <<pc, st, i, N, growth, vwCap, tmpW>>
    /\ UNCHANGED vpVars

\* the elements of the old storage are destroyed, the old storage released
VwGrowEnd ==
    /\ pc \in {"push_vw", "loop_vw"}
    /\ st = "grow"
    /\ Len(vw) = Len(vwOld)
    /\ vwOld' = <<>>
    /\ st' = "tmp"
    /\ UNCHANGED <<pc, i, N, growth, vw, vwCap, tmpW, lastCtor>>
    /\ UNCHANGED vpVars

\* push_back(WidgetImpl&&): the new element is move-constructed at the end
VwEmplace ==
    /\ pc \in {"push_vw", "loop_vw"}
    /\ st = "tmp"
    /\ Len(vw) < vwCap
    /\ \E g \in Indeterminate :
          vw' = Append(vw, WidgetImplMoveCtor(tmpW[1], g))
    /\ \E nm \in MovedFromNames(tmpW[1]) :
          tmpW' = <<WidgetImplMovedFrom(tmpW[1], nm)>>
    /\ lastCtor' = "WidgetImpl::move"
    /\ st' = "fin"
    /\ UNCHANGED <<pc, i, N, growth, vwCap, vwOld>>
    /\ UNCHANGED vpVars

\* end of the full expression: the temporary is destroyed
VwDestroyTemp ==
    /\ pc \in {"push_vw", "loop_vw"}
    /\ st = "fin"
    /\ tmpW' = <<>>
    /\ st' = "stmt"
    /\ AfterPush
    /\ UNCHANGED <<N, growth, vw, vwCap, vwOld, lastCtor>>
    /\ UNCHANGED vpVars

\* vw[0] = vw[1];
VwAssign ==
    /\ pc = "assign_vw"
    /\ vw' = [vw EXCEPT ![1] = WidgetImplCopyAssign(vw[1], vw[2])]
    /\ lastCtor' = "WidgetImpl::operator="
    /\ pc' = "push_vp"
    /\ i' = 1
    /\ UNCHANGED <<st, N, growth, vwCap, vwOld, tmpW>>
    /\ UNCHANGED vpVars

\* ---- vpimpl.push_back(Widget(i))
\* the argument: the temporary Widget(i), pimpl(make_unique<WidgetImpl>(...))
ConstructWidget ==
    /\ pc \in {"push_vp", "loop_vp"}
    /\ st = "stmt"
    /\ pc = "loop_vp" => i < N
    /\ \E a \in NewAddrs, g \in Indeterminate :
          /\ heap' = HeapNew(heap, a, WidgetImplCtor(i, 0, 0, 0, DefaultName, g))
          /\ tmpP' = <<a>>
    /\ payloadAllocs' = payloadAllocs + 1
    /\ st' = "tmp"
    /\ UNCHANGED <<pc, i, N, growth, vpimpl, vpCap, vpOld, lastCtor>>
    /\ UNCHANGED vwVars

VpGrowBegin ==
    /\ pc \in {"push_vp", "loop_vp"}
    /\ st = "tmp"
    /\ Len(vpimpl) = vpCap
    /\ vpOld' = vpimpl
    /\ vpimpl' = <<>>
    /\ vpCap' = NewCap(growth, vpCap)
    /\ st' = "grow"
    /\ UNCHANGED <<pc, i, N, growth, tmpP, heap, payloadAllocs, lastCtor>>
    /\ UNCHANGED vwVars

\* Widget(Widget&& rhs) : pimpl(move(rhs.pimpl)) -- the pimpl the new object
\* holds
WidgetMoveCtor(rhs) == rhs

\* A move constructor that copies the raw pointer and leaves rhs owning it.
WidgetNotReleased(rhs) == rhs

\* ... and the pimpl left in rhs
WidgetMovedFrom(rhs) == NULL

\* A Widget whose growth deep-copies: relocation by move only when the move
\* constructor is noexcept.
VpRelocateCopying ==
    /\ pc \in {"push_vp", "loop_vp"}
    /\ st = "grow"
    /\ Len(vpimpl) < Len(vpOld)
    /\ LET k == Len(vpimpl) + 1 IN
       /\ \E a \in NewAddrs, g \in Indeterminate :
             /\ heap' = HeapNew(heap, a, WidgetImplCopyCtor(heap[vpOld[k]], g))
             /\ vpimpl' = Append(vpimpl, a)
       /\ vpOld' = vpOld
       /\ payloadAllocs' = payloadAllocs + 1
       /\ lastCtor' = "Widget::copy"
    /\ UNCHANGED <<pc, st, i, N, growth, vpCap, tmpP>>
    /\ UNCHANGED vwVars

\* the next existing element is constructed in the new storage; Widget has
\* no copy constructor, so move_if_noexcept can only yield the move
VpRelocate ==
    /\ pc \in {"push_vp", "loop_vp"}
    /\ st = "grow"
    /\ Len(vpimpl) < Len(vpOld)
    /\ UseMove(WidgetTraits)
    /\ LET k == Len(vpimpl) + 1 IN
       /\ vpimpl' = Append(vpimpl, WidgetMoveCtor(vpOld[k]))
       /\ vpOld' = [vpOld EXCEPT ![k] = WidgetMovedFrom(vpOld[k])]
    /\ lastCtor' = "Widget::move"
    /\ UNCHANGED <<pc, st, i, N, growth, vpCap, tmpP, heap, payloadAllocs>>
    /\ UNCHANGED vwVars

\* the elements of the old storage are destroyed (~unique_ptr deletes what a
\* handle still owns), the old storage released
VpGrowEnd ==
    /\ pc \in {"push_vp", "loop_vp"}
    /\ st = "grow"
    /\ Len(vpimpl) = Len(vpOld)
    /\ heap' = HeapDeleteAll(heap, vpOld)
    /\ vpOld' = <<>>
    /\ st' = "tmp"
    /\ UNCHANGED <<pc, i, N, growth, vpimpl, vpCap, tmpP, payloadAllocs, lastCtor>>
    /\ UNCHANGED vwVars

\* push_back(Widget&&): the new element is move-constructed at the end
VpEmplace ==
    /\ pc \in {"push_vp", "loop_vp"}
    /\ st = "tmp"
    /\ Len(vpimpl) < vpCap
    /\ vpimpl' = Append(vpimpl, WidgetMoveCtor(tmpP[1]))
    /\ tmpP' = <<WidgetMovedFrom(tmpP[1])>>
    /\ lastCtor' = "Widget::move"
    /\ st' = "fin"
    /\ UNCHANGED <<pc, i, N, growth, vpCap, vpOld, heap, payloadAllocs>>
    /\ UNCHANGED vwVars

\* end of the full expression: the temporary is destroyed
VpDestroyTemp ==
    /\ pc \in {"push_vp", "loop_vp"}
    /\ st = "fin"
    /\ heap' = HeapDelete(heap, tmpP[1])
    /\ tmpP' = <<>>
    /\ st' = "stmt"
    /\ AfterPush
    /\ UNCHANGED <<N, growth, vpimpl, vpCap, vpOld, payloadAllocs, lastCtor>>
    /\ UNCHANGED vwVars

\* A copy assignment that shares the right-hand side's payload instead of
\* allocating one of its own.
VpAssignShallow ==
    /\ pc = "assign_vp"
    /\ heap' = HeapDelete(heap, vpimpl[1])
    /\ vpimpl' = [vpimpl EXCEPT ![1] = vpimpl[2]]
    /\ lastCtor' = "Widget::operator="
    /\ pc' = "clear_vw"
    /\ UNCHANGED <<st, i, N, growth, vpCap, vpOld, tmpP, payloadAllocs>>
    /\ UNCHANGED vwVars

\* vpimpl[0] = vpimpl[1];
\* Widget::operator=: pimpl = make_unique<WidgetImpl>(rhs.pimpl->i, ...,
\* rhs.pimpl->name); the payload pimpl owned before is deleted by the
\* unique_ptr move assignment.
VpAssign ==
    /\ pc = "assign_vp"
    /\ LET rhs == heap[vpimpl[2]] IN
       \E a \in NewAddrs, g \in Indeterminate :
          /\ heap' = HeapDelete(
                        HeapNew(heap, a,
                                WidgetImplCtor(rhs.i, rhs.b, rhs.c, rhs.d, rhs.name, g)),
                        vpimpl[1])
          /\ vpimpl' = [vpimpl EXCEPT ![1] = a]
    /\ payloadAllocs' = payloadAllocs + 1
    /\ lastCtor' = "Widget::operator="
    /\ pc' = "clear_vw"
    /\ UNCHANGED <<st, i, N, growth, vpCap, vpOld, tmpP>>
    /\ UNCHANGED vwVars

\* main without the call of vw.clear().
ClearVwOmitted ==
    /\ pc = "clear_vw"
    /\ pc' = "clear_vp"
    /\ UNCHANGED <<st, i, N, growth, lastCtor>>
    /\ UNCHANGED vwVars
    /\ UNCHANGED vpVars

\* vw.clear(); the capacity stays
ClearVw ==
    /\ pc = "clear_vw"
    /\ vw' = <<>>
    /\ pc' = "clear_vp"
    /\ UNCHANGED <<st, i, N, growth, vwCap, vwOld, tmpW, lastCtor>>
    /\ UNCHANGED vpVars

\* vpimpl.clear(); every element is destroyed, the capacity stays
ClearVp ==
    /\ pc = "clear_vp"
    /\ heap' = HeapDeleteAll(heap, vpimpl)
    /\ vpimpl' = <<>>
    /\ pc' = "loop_vw"
    /\ i' = 0
    /\ UNCHANGED <<st, N, growth, vpCap, vpOld, tmpP, payloadAllocs, lastCtor>>
    /\ UNCHANGED vwVars

\* for (int i = 0; i < N; ++i) ... : the condition fails, the loop ends
LoopVwExit ==
    /\ pc = "loop_vw"
    /\ st = "stmt"
    /\ ~(i < N)
    /\ pc' = "loop_vp"
    /\ i' = 0
    /\ UNCHANGED <<st, N, growth, lastCtor>>
    /\ UNCHANGED vwVars
    /\ UNCHANGED vpVars

LoopVpExit ==
    /\ pc = "loop_vp"
    /\ st = "stmt"
    /\ ~(i < N)
    /\ pc' = "return"
    /\ UNCHANGED <<st, i, N, growth, lastCtor>>
    /\ UNCHANGED vwVars
    /\ UNCHANGED vpVars

\* return 0; vpimpl and vw are destroyed
Return ==
    /\ pc = "return"
    /\ heap' = HeapDeleteAll(heap, vpimpl)
    /\ vpimpl' = <<>>
    /\ vpCap' = 0
    /\ vw' = <<>>
    /\ vwCap' = 0
    /\ pc' = "exit"
    /\ UNCHANGED <<st, i, N, growth, vwOld, tmpW, vpOld, tmpP, payloadAllocs, lastCtor>>

Next ==
    \/ ConstructWidgetImpl
    \/ VwGrowBegin
    \/ VwRelocate
    \/ VwGrowEnd
    \/ VwEmplace
    \/ VwDestroyTemp
    \/ VwAssign
    \/ ConstructWidget
    \/ VpGrowBegin
    \/ VpRelocate
    \/ VpGrowEnd
    \/ VpEmplace
    \/ VpDestroyTemp
    \/ VpAssign
    \/ ClearVw
    \/ ClearVp
    \/ LoopVwExit
    \/ LoopVpExit
    \/ Return

Spec == Init /\ [][Next]_vars

\* ----------------------------------------------------------- properties
InVw == pc \in {"push_vw", "loop_vw"}
InVp == pc \in {"push_vp", "loop_vp"}

\* Every handle that exists: the elements of vpimpl, the elements of the
\* storage being left, the temporary.
Handles == [c \in {"vpimpl", "vpOld", "tmpP"} |->
              IF c = "vpimpl" THEN vpimpl ELSE IF c = "vpOld" THEN vpOld ELSE tmpP]

HandleSlots == {<<c, k>> : c \in {"vpimpl", "vpOld", "tmpP"}, k \in 1..(MaxAddr + 1)}

LiveSlots == {s \in HandleSlots : s[2] <= Len(Handles[s[1]])}

PimplOf(s) == Handles[s[1]][s[2]]

WidgetImplFields == {"i", "b", "c", "d", "name", "arr"}

\* The pimpl of the k-th element of vpimpl, in whichever storage the element
\* is at the moment.
ElemPimpl(k) ==
    IF st = "grow" /\ InVp /\ k > Len(vpimpl) THEN vpOld[k] ELSE vpimpl[k]

\* Number of elements of vpimpl, in both storages together.
ElemCount == IF st = "grow" /\ InVp THEN Len(vpOld) ELSE Len(vpimpl)

\* make_unique calls before the timed loop of vpimpl: the three push_back
\* calls and the copy assignment.
PreLoopAllocs == PrePushes + 1

\* C1 (as claimed): the copy assignment vpimpl[0] = vpimpl[1] leaves
\* vpimpl[0] owning a newly allocated payload, at an address other than that
\* of vpimpl[1]'s payload, equal to it in every field (i, b, c, d, name and
\* arr); vpimpl[1]'s payload and its address are unchanged.
CexC1 ==
    [][pc = "assign_vp" =>
          LET src == vpimpl[2]
              dst == vpimpl'[1]
          IN /\ vpimpl'[2] = src
             /\ src \in DOMAIN heap'
             /\ heap'[src] = heap[src]
             /\ dst # src
             /\ dst \notin DOMAIN heap
             /\ dst \in DOMAIN heap'
             /\ \A f \in WidgetImplFields : heap'[dst][f] = heap'[src][f]]_vars

\* C2: every move construction of a Widget (the new element from the
\* temporary, an element of the new storage from the element of the old
\* one) leaves the source with a null pimpl and the destination with the
\* source's pimpl, which still addresses the same payload; nothing is
\* allocated and no payload changes.
ThmC2 ==
    [][/\ (InVp /\ st = "tmp" /\ Len(vpimpl) < vpCap) =>
             /\ tmpP'[1] = NULL
             /\ tmpP[1] \in DOMAIN heap
             /\ vpimpl'[Len(vpimpl) + 1] = tmpP[1]
             /\ heap' = heap
             /\ payloadAllocs' = payloadAllocs
       /\ (InVp /\ st = "grow" /\ Len(vpimpl) < Len(vpOld)) =>
             LET k == Len(vpimpl) + 1 IN
             /\ vpOld'[k] = NULL
             /\ vpOld[k] \in DOMAIN heap
             /\ vpimpl'[k] = vpOld[k]
             /\ heap' = heap
             /\ payloadAllocs' = payloadAllocs]_vars

\* a Widget has just been move-constructed from the temporary
WitC2 ==
    /\ InVp /\ st = "fin"
    /\ tmpP = <<NULL>>
    /\ vpimpl[Len(vpimpl)] \in DOMAIN heap

\* C3: in every state each handle's pimpl is null or addresses a live,
\* fully constructed WidgetImpl that no other handle addresses; a null pimpl
\* is found only in a moved-from object that is destroyed next (the
\* temporary after the push, the elements of the storage being left), never
\* in an element of vpimpl and never between two statements.
ThmC3 ==
    /\ \A s \in LiveSlots :
          \/ PimplOf(s) = NULL
          \/ /\ PimplOf(s) \in DOMAIN heap
             /\ DOMAIN heap[PimplOf(s)] = WidgetImplFields
    /\ \A s, t \in LiveSlots :
          (s # t /\ PimplOf(s) # NULL) => PimplOf(s) # PimplOf(t)
    /\ \A k \in 1..Len(vpimpl) : vpimpl[k] # NULL
    /\ (tmpP # <<>> /\ tmpP[1] = NULL) => (InVp /\ st = "fin")
    /\ (\E k \in 1..Len(vpOld) : vpOld[k] = NULL) => (InVp /\ st = "grow")
    /\ st = "stmt" => (tmpP = <<>> /\ vpOld = <<>>)

\* after vpimpl[0] = vpimpl[1]: three elements, three distinct payloads
WitC3 ==
    /\ pc = "clear_vw"
    /\ Len(vpimpl) = PrePushes
    /\ Cardinality({vpimpl[k] : k \in 1..Len(vpimpl)}) = PrePushes
    /\ heap[vpimpl[1]].i = heap[vpimpl[2]].i

\* C4 (as claimed): vw[0] = vw[1] leaves vw[0] and vw[1] equal in every
\* field and vw[1], vw[2] as they were.
CexC4 ==
    [][pc = "assign_vw" =>
          /\ \A f \in WidgetImplFields : vw'[1][f] = vw'[2][f]
          /\ vw'[2] = vw[2]
          /\ vw'[3] = vw[3]]_vars

\* C5: when the loop over vw has ended, vw[k].i = k for every k of 0..N-1.
ThmC5 ==
    (pc \in {"loop_vp", "return"}) =>
        /\ Len(vw) >= N
        /\ \A k \in 0..(N - 1) : vw[k + 1].i = k

\* the loop has ended after growing the storage inside the loop
WitC5 ==
    /\ pc = "loop_vp"
    /\ N > PrePushes + 1
    /\ vwCap >= N
    /\ vw[N].i = N - 1
    /\ vw[1].i = 0

\* C6: when a timed loop ends, its container has exactly N elements.
ThmC6 ==
    /\ (pc = "loop_vw" /\ st = "stmt" /\ ~(i < N)) => Len(vw) = N
    /\ (pc = "return") => (Len(vw) = N /\ Len(vpimpl) = N)

\* both loops have ended, each after growing its storage
WitC6 ==
    /\ pc = "return"
    /\ N > PrePushes + 1
    /\ Len(vw) = N /\ Len(vpimpl) = N
    /\ vwCap >= N /\ vpCap >= N

CexC9 ==
    (InVw /\ st = "grow") =>
        \A k \in 1..Len(vw) : \A f \in WidgetImplFields : vw[k][f] = vwOld[k][f]

\* C10: in the loop over vpimpl no step changes, frees or moves a payload
\* and no step changes the pimpl of an element; the steps of a growth
\* allocate nothing; between two iterations the number of payloads allocated
\* in the loop is the number of appends, and the payload of element k is the
\* one constructed from k.
ThmC10 ==
    /\ [](pc = "loop_vp" /\ st = "stmt" =>
             /\ payloadAllocs = PreLoopAllocs + i
             /\ Len(vpimpl) = i
             /\ Cardinality(DOMAIN heap) = i
             /\ \A k \in 1..i : heap[vpimpl[k]].i = k - 1)
    /\ [][pc = "loop_vp" /\ pc' = "loop_vp" =>
             /\ \A a \in DOMAIN heap : a \in DOMAIN heap' /\ heap'[a] = heap[a]
             /\ \A k \in 1..ElemCount : ElemPimpl(k)' = ElemPimpl(k)
             /\ (st = "grow" \/ st' = "grow") =>
                   (heap' = heap /\ payloadAllocs' = payloadAllocs)]_vars

\* inside the loop, every element of the old storage has been relocated
WitC10 ==
    /\ pc = "loop_vp" /\ st = "grow"
    /\ Len(vpOld) > PrePushes
    /\ Len(vpimpl) = Len(vpOld)
    /\ \A k \in 1..Len(vpOld) : vpOld[k] = NULL

====
